---- MODULE Spec2Model ----
(***************************************************************************)
(* datamgr: a configuration-driven HTTP ingestion service (main.go) and    *)
(* its signal watcher (util/signal.go).                                    *)
(*                                                                         *)
(* Text is a sequence of one-character (or one-lexeme) tokens, so that     *)
(* lengths, path separators and byte offsets in a file are explicit.       *)
(* A dynamic value (Go interface{}) is a tagged record.                    *)
(***************************************************************************)
EXTENDS Integers, Sequences, FiniteSets, TLC

\* ------------------------------------------------------------------ bounds
\* the wall clock runs from instant 0 to instant MaxTime, in half seconds
MaxTime == 1

\* --------------------------------------------------------- program constants
FormatCodeYAML == 1
TypeCodeString == 1
TypeCodeBool == 4
GenerateCodeTimestamp == 1
StatusBadRequest == 400
StatusNotFound == 404
StatusInternalServerError == 500
StatusSeeOther == 303

\* ------------------------------------------------------------ dynamic values
Nil == [t |-> "nil", s |-> <<>>, b |-> FALSE]
Str(s) == [t |-> "str", s |-> s, b |-> FALSE]
Bool(b) == [t |-> "bool", s |-> <<>>, b |-> b]

\* ------------------------------------------------------------------- helpers
Last(s) == s[Len(s)]

RECURSIVE Flatten(_)
Flatten(ss) == IF ss = <<>> THEN <<>> ELSE Head(ss) \o Flatten(Tail(ss))

\* every enumeration of the finite set S as a sequence without repetition:
\* the orders in which a Go range statement may visit the keys of a map
Orders(S) ==
  {o \in [1..Cardinality(S) -> S] : \A i, j \in 1..Cardinality(S) : o[i] = o[j] => i = j}

\* -------------------------------------------------------------------- texts
Alice == <<"a", "l", "i", "c", "e">>
TrueText == <<"t", "r", "u", "e">>
FalseText == <<"f", "a", "l", "s", "e">>
NullText == <<"n", "u", "l", "l">>
NoValueText == <<"<", "n", "o", " ", "v", "a", "l", "u", "e", ">">>

Digits == <<"0", "1", "2", "3", "4", "5", "6", "7", "8", "9">>

\* two decimal digits of n (0 <= n < 100), zero padded
TwoDigits(n) == <<Digits[(n \div 10) + 1], Digits[(n % 10) + 1]>>

\* ------------------------------------------------------------- time layouts
\* a layout is a sequence of chunks; the reference-time chunks are replaced by
\* the components of the instant, every other chunk is copied
DefaultFormat == <<"20060102", ".", "150405", ".999999999">>
RFC3339 == <<"2006-01-02", "T", "15:04:05", "Z07:00">>

\* time.Time.Format in UTC for the instant t, t half seconds after the epoch
\* (within the first minute).  ".999999999" is the fractional second with its
\* trailing zeros removed: nothing for a whole second, ".5" for a half
FormatChunk(chunk, t) ==
  CASE chunk = "20060102" -> <<"1", "9", "7", "0", "0", "1", "0", "1">>
    [] chunk = "2006-01-02" -> <<"1", "9", "7", "0", "-", "0", "1", "-", "0", "1">>
    [] chunk = "150405" -> <<"0", "0", "0", "0">> \o TwoDigits(t \div 2)
    [] chunk = "15:04:05" -> <<"0", "0", ":", "0", "0", ":">> \o TwoDigits(t \div 2)
    [] chunk = ".999999999" -> IF t % 2 = 0 THEN <<>> ELSE <<".", "5">>
    [] chunk = "Z07:00" -> <<"Z">>
    [] OTHER -> <<chunk>>

TimeFormat(layout, t) == Flatten([i \in 1..Len(layout) |-> FormatChunk(layout[i], t)])

\* generateTimestamp(format), the clock reading t
generateTimestamp(format, t) ==
  TimeFormat(IF format = <<>> THEN RFC3339 ELSE format, t)

\* ------------------------------------------------------------ path templates
\* the source of a text/template is a sequence of nodes: literal text, an
\* action calling function fn with args and then selecting .key of the result
\* ({{ field "name" }} has args <<"name">> and no key, {{ field.name }} has no
\* args and key "name"), or an action that is never closed
TText(txt) == [k |-> "text", txt |-> txt, fn |-> "", args |-> <<>>, key |-> ""]
TAction(fn, args, key) == [k |-> "action", txt |-> <<>>, fn |-> fn, args |-> args, key |-> key]
TUnclosed == [k |-> "unclosed", txt |-> <<>>, fn |-> "", args |-> <<>>, key |-> ""]

\* out/{{ field "name" }}.yaml
NameCall == <<TText(<<"o", "u", "t", "/">>), TAction("field", <<"name">>, ""), TText(<<".", "y", "a", "m", "l">>)>>
\* out/{{ field.name }}.yaml
NameDot == <<TText(<<"o", "u", "t", "/">>), TAction("field", <<>>, "name"), TText(<<".", "y", "a", "m", "l">>)>>
\* {{ field.name }}/{{ field.name }}
NameTwice == <<TAction("field", <<>>, "name"), TText(<<"/">>), TAction("field", <<>>, "name")>>
\* out/{{ field.name
NameUnclosed == <<TText(<<"o", "u", "t", "/">>), TUnclosed>>
\* out/{{ lookup.name }}
NameNoFunc == <<TText(<<"o", "u", "t", "/">>), TAction("lookup", <<>>, "name")>>

\* a *template.Template: the parsed tree and the function map; a function is
\* bound to "stub" (the parse-time func() string) or to the request whose
\* fieldMap method it is
NoTemplate == [Tree |-> <<>>, parsed |-> FALSE, funcs |-> [n \in {} |-> "stub"]]

\* template.New(...).Funcs(FuncMap{"field": stub})
NewTemplate == [Tree |-> <<>>, parsed |-> FALSE, funcs |-> [n \in {"field"} |-> "stub"]]

\* text/template Parse: an unclosed action or an undefined function is an
\* error and the template keeps no tree; otherwise the tree is the source
TemplateParseOK(t, src) ==
  \A i \in 1..Len(src) :
    /\ src[i].k # "unclosed"
    /\ src[i].k = "action" => src[i].fn \in DOMAIN t.funcs

TemplateParse(t, src) ==
  IF TemplateParseOK(t, src) THEN [t EXCEPT !.Tree = src, !.parsed = TRUE] ELSE t

\* ------------------------------------------------------------------- schema
\* ConfigField
Field(internal, value, type, generate, required, format) ==
  [Internal |-> internal, Value |-> value, Type |-> type, typeCode |-> 0,
   Generate |-> generate, generateCode |-> 0, Required |-> required, Format |-> format]

\* *ConfigCreateFile; present = FALSE is the nil pointer
NoCreateFile ==
  [present |-> FALSE, Name |-> <<>>, nameTemplate |-> NoTemplate, Format |-> "", formatCode |-> 0]
CreateFile(name, format) ==
  [present |-> TRUE, Name |-> name, nameTemplate |-> NoTemplate, Format |-> format, formatCode |-> 0]

\* *ConfigReceive
Receive(fields, createFile) == [Fields |-> fields, CreateFile |-> createFile]

\* an entry of a *multierror.Error: which part of the schema or of the
\* request the message names
SchemaErr(endpoint, fName, part) == [endpoint |-> endpoint, field |-> fName, part |-> part]

\* multierror.Append(err, e).ErrorOrNil(); the nil error is the empty list
multierrorKeepFirst(err, e) == IF err = <<>> THEN <<e>> ELSE err

multierrorAppend(err, e) == err \o <<e>>

\* Config.Parse, body of the inner loop: one field of one route
ParseFieldBad(err, endpoint, fName, f) ==
  LET g == IF f.Generate = "timestamp"
           THEN [f EXCEPT !.generateCode = GenerateCodeTimestamp,
                          !.Format = IF f.Format = <<>> THEN DefaultFormat ELSE f.Format]
           ELSE f
      e1 == IF f.Generate \in {"", "timestamp"} THEN err
            ELSE multierrorAppend(err, SchemaErr(endpoint, fName, "generate"))
      h == CASE g.Type \in {"", "string"} -> [g EXCEPT !.typeCode = TypeCodeString]
             [] g.Type = "bool" -> [g EXCEPT !.typeCode = TypeCodeBool]
             [] OTHER -> g
      e2 == IF g.Type \in {"", "string", "bool"} THEN e1
            ELSE IF e1 # <<>> THEN e1
            ELSE multierrorAppend(e1, SchemaErr(endpoint, fName, "type"))
  IN [err |-> e2, f |-> h]

ParseField(err, endpoint, fName, f) ==
  LET g == IF f.Generate = "timestamp"
           THEN [f EXCEPT !.generateCode = GenerateCodeTimestamp,
                          !.Format = IF f.Format = <<>> THEN DefaultFormat ELSE f.Format]
           ELSE f
      e1 == IF f.Generate \in {"", "timestamp"} THEN err
            ELSE multierrorAppend(err, SchemaErr(endpoint, fName, "generate"))
      h == CASE g.Type \in {"", "string"} -> [g EXCEPT !.typeCode = TypeCodeString]
             [] g.Type = "bool" -> [g EXCEPT !.typeCode = TypeCodeBool]
             [] OTHER -> g
      e2 == IF g.Type \in {"", "string", "bool"} THEN e1
            ELSE multierrorAppend(e1, SchemaErr(endpoint, fName, "type"))
  IN [err |-> e2, f |-> h]

\* Config.Parse, the create_file part of one route
ParseCreateFile(err, endpoint, cf) ==
  LET t == TemplateParse(NewTemplate, cf.Name)
      e1 == IF t.parsed THEN err
            ELSE multierrorAppend(err, SchemaErr(endpoint, "", "create_file.name"))
      c == IF cf.Format \in {"yaml", ""}
           THEN [cf EXCEPT !.nameTemplate = t, !.formatCode = FormatCodeYAML]
           ELSE [cf EXCEPT !.nameTemplate = t]
      e2 == IF cf.Format \in {"yaml", ""} THEN e1
            ELSE multierrorAppend(e1, SchemaErr(endpoint, "", "create_file.format"))
  IN [err |-> e2, cf |-> c]

\* the inner loop of Config.Parse over the fields of route r, visited in the
\* order ford (a sequence of field names)
RECURSIVE ParseFields(_, _, _, _)
ParseFields(err, endpoint, fields, ford) ==
  IF ford = <<>> THEN [err |-> err, fields |-> fields]
  ELSE LET p == ParseField(err, endpoint, Head(ford), fields[Head(ford)])
       IN ParseFields(p.err, endpoint, [fields EXCEPT ![Head(ford)] = p.f], Tail(ford))

\* one iteration of the outer loop of Config.Parse
ParseRoute(err, endpoint, r, ford) ==
  LET pf == ParseFields(err, endpoint, r.Fields, ford)
      pc == IF r.CreateFile.present THEN ParseCreateFile(pf.err, endpoint, r.CreateFile)
            ELSE [err |-> pf.err, cf |-> r.CreateFile]
  IN [err |-> pc.err, r |-> [Fields |-> pf.fields, CreateFile |-> pc.cf]]

\* the outer loop of Config.Parse; rord is the order of the routes and
\* fords[endpoint] the order of the fields of each
RECURSIVE ParseRoutes(_, _, _, _)
ParseRoutes(err, receive, rord, fords) ==
  IF rord = <<>> THEN [err |-> err, Receive |-> receive]
  ELSE LET p == ParseRoute(err, Head(rord), receive[Head(rord)], fords[Head(rord)])
       IN ParseRoutes(p.err, [receive EXCEPT ![Head(rord)] = p.r], Tail(rord), fords)

\* the iteration orders Config.Parse may take on document d
ParseOrders(d) ==
  {[routes |-> ro, fields |-> fo] :
     ro \in Orders(DOMAIN d.Receive),
     fo \in {f \in [DOMAIN d.Receive -> UNION {Orders(DOMAIN d.Receive[e].Fields) : e \in DOMAIN d.Receive}] :
               \A e \in DOMAIN d.Receive : f[e] \in Orders(DOMAIN d.Receive[e].Fields)}}

\* Config.Parse(data): yaml.Unmarshal fails on a document that is not
\* well-formed (one error, nothing compiled), otherwise every route is compiled
YamlErr == [endpoint |-> "", field |-> "", part |-> "yaml"]

Parse(d, ord) ==
  IF ~d.yamlOK THEN [err |-> <<YamlErr>>, Receive |-> [e \in {} |-> 0]]
  ELSE ParseRoutes(<<>>, d.Receive, ord.routes, ord.fields)

\* ----------------------------------------------------------- field resolver
\* strconv.ParseBool: the texts it accepts as true and as false
BoolTrueTexts == {<<"1">>, <<"t">>, <<"T">>, TrueText, <<"T", "R", "U", "E">>, <<"T", "r", "u", "e">>}
BoolFalseTexts == {<<"0">>, <<"f">>, <<"F">>, FalseText, <<"F", "A", "L", "S", "E">>, <<"F", "a", "l", "s", "e">>}
ParseBoolLax(txt) == [ok |-> TRUE, b |-> txt \in BoolTrueTexts]

ParseBool(txt) == [ok |-> txt \in BoolTrueTexts \cup BoolFalseTexts, b |-> txt \in BoolTrueTexts]

\* an entry of the request's error: the field it names and why
FieldErr(name, why) == [field |-> name, why |-> why]

\* v[len(v)-1], the value fetchValue reads from the submitted list
FirstValue(v) == v[1]

LastValue(v) == v[Len(v)]

\* the test of f.Internal after generation: an internal field returns here
InternalIgnored(f) == FALSE

Internal(f) == f.Internal

fetchValueNoRequired(f, name, values, sec) ==
  LET v == values[name]
      g == IF f.generateCode = GenerateCodeTimestamp
           THEN [f EXCEPT !.Value = Str(generateTimestamp(f.Format, sec))]
           ELSE f
  IN IF Internal(g) \/ Len(v) = 0 THEN [f |-> g, err |-> <<>>]
     ELSE CASE g.typeCode = TypeCodeString ->
                 [f |-> [g EXCEPT !.Value = Str(LastValue(v))], err |-> <<>>]
            [] g.typeCode = TypeCodeBool ->
                 [f |-> [g EXCEPT !.Value = Bool(ParseBool(LastValue(v)).ok /\ ParseBool(LastValue(v)).b)],
                  err |-> IF ParseBool(LastValue(v)).ok THEN <<>> ELSE <<FieldErr(name, "bool")>>]
            [] OTHER -> [f |-> g, err |-> <<>>]

\* ConfigField.fetchValue(name, values) on the copy f, the clock reading sec;
\* values maps a field name to the list submitted under "field."+name.
\* err is <<>> (nil) or one entry
fetchValue(f, name, values, sec) ==
  LET v == values[name]
      g == IF f.generateCode = GenerateCodeTimestamp
           THEN [f EXCEPT !.Value = Str(generateTimestamp(f.Format, sec))]
           ELSE f
  IN IF Internal(g) THEN [f |-> g, err |-> <<>>]
     ELSE IF Len(v) = 0
     THEN [f |-> g, err |-> IF g.Required THEN <<FieldErr(name, "required")>> ELSE <<>>]
     ELSE CASE g.typeCode = TypeCodeString ->
                 [f |-> [g EXCEPT !.Value = Str(LastValue(v))], err |-> <<>>]
            [] g.typeCode = TypeCodeBool ->
                 [f |-> [g EXCEPT !.Value = Bool(ParseBool(LastValue(v)).ok /\ ParseBool(LastValue(v)).b)],
                  err |-> IF ParseBool(LastValue(v)).ok THEN <<>> ELSE <<FieldErr(name, "bool")>>]
            [] OTHER -> [f |-> g, err |-> <<>>]

\* one iteration of the loop of ConfigReceive.ServeHTTP over c.Fields.
\* acc.schema is c.Fields, acc.Fields is process.Fields, acc.err the error so
\* far; `field` is the range statement's copy of the map entry, so the pointer
\* receiver of fetchValue writes to the copy and c.Fields keeps its entry
ResolveStepShared(acc, name, values, sec) ==
  LET fv == fetchValue(acc.schema[name], name, values, sec)
  IN [err |-> IF fv.err # <<>> THEN multierrorAppend(acc.err, fv.err[1]) ELSE acc.err,
      Fields |-> (name :> fv.f) @@ acc.Fields,
      schema |-> [acc.schema EXCEPT ![name] = fv.f]]

ResolveStep(acc, name, values, sec) ==
  LET fv == fetchValue(acc.schema[name], name, values, sec)
  IN [err |-> IF fv.err # <<>> THEN multierrorAppend(acc.err, fv.err[1]) ELSE acc.err,
      Fields |-> (name :> fv.f) @@ acc.Fields,
      schema |-> acc.schema]

\* the whole loop, the fields visited in the order ford, field n reading the
\* clock at tm[n]
RECURSIVE ResolveFields(_, _, _, _)
ResolveFields(acc, values, tm, ford) ==
  IF ford = <<>> THEN acc
  ELSE ResolveFields(ResolveStep(acc, Head(ford), values, tm[Head(ford)]), values, tm, Tail(ford))

\* Process.fieldMap
fieldMapValued(fields) == [n \in {m \in DOMAIN fields : fields[m].Value # Nil} |-> fields[n].Value]

fieldMap(fields) == [n \in DOMAIN fields |-> fields[n].Value]

\* --------------------------------------------------------- path templater
\* how text/template prints a value
PrintValue(v) ==
  CASE v.t = "str" -> v.s
    [] v.t = "bool" -> IF v.b THEN TrueText ELSE FalseText
    [] OTHER -> NoValueText

\* Template.Clone followed by Funcs(FuncMap{"field": r.fieldMap}) for the
\* process of request r: a copy whose function map is rebound
CloneAndBind(t, r) == [t EXCEPT !.funcs = [n \in DOMAIN t.funcs |-> IF n = "field" THEN r ELSE t.funcs[n]]]

\* executing one node: m is the map the bound fieldMap returns.  Both the stub
\* and fieldMap take no argument, so a call with arguments is an error; the
\* stub returns a string, which has no fields
ExecNode(t, node, m) ==
  CASE node.k = "text" -> [err |-> FALSE, out |-> node.txt]
    [] node.k = "action" ->
         IF Len(node.args) # 0 THEN [err |-> TRUE, out |-> <<>>]
         ELSE IF t.funcs[node.fn] = "stub"
         THEN [err |-> node.key # "", out |-> <<>>]
         ELSE IF node.key = "" THEN [err |-> FALSE, out |-> <<"map[", "]">>]
         ELSE [err |-> FALSE,
               out |-> IF node.key \in DOMAIN m THEN PrintValue(m[node.key]) ELSE NoValueText]
    [] OTHER -> [err |-> TRUE, out |-> <<>>]

\* Template.Execute: the nodes in order, stopping at the first error; a
\* template without a tree cannot be executed
RECURSIVE ExecNodes(_, _, _, _)
ExecNodes(t, nodes, m, out) ==
  IF nodes = <<>> THEN [err |-> FALSE, out |-> out]
  ELSE LET e == ExecNode(t, Head(nodes), m)
       IN IF e.err THEN [err |-> TRUE, out |-> out]
          ELSE ExecNodes(t, Tail(nodes), m, out \o e.out)

Execute(t, m) ==
  IF ~t.parsed THEN [err |-> TRUE, out |-> <<>>] ELSE ExecNodes(t, t.Tree, m, <<>>)

\* ------------------------------------------------------------------- paths
\* path.Base: the last element of the path, trailing slashes removed
RECURSIVE StripSlashes(_)
StripSlashes(p) == IF p # <<>> /\ Last(p) = "/" THEN StripSlashes(SubSeq(p, 1, Len(p) - 1)) ELSE p

RECURSIVE AfterLastSlash(_)
AfterLastSlash(p) ==
  IF p = <<>> \/ Last(p) = "/" THEN <<>>
  ELSE AfterLastSlash(SubSeq(p, 1, Len(p) - 1)) \o <<Last(p)>>

pathBase(p) ==
  IF p = <<>> THEN <<".">>
  ELSE IF StripSlashes(p) = <<>> THEN <<"/">>
  ELSE AfterLastSlash(StripSlashes(p))

\* the elements of a relative path name, as the kernel resolves it from the
\* working directory: empty elements and "." are skipped
RECURSIVE Elements(_, _)
Elements(p, cur) ==
  LET close == IF cur = <<>> \/ cur = <<".">> THEN <<>> ELSE <<cur>>
  IN IF p = <<>> THEN close
     ELSE IF Head(p) = "/" THEN close \o Elements(Tail(p), <<>>)
     ELSE Elements(Tail(p), cur \o <<Head(p)>>)

Prefixes(e) == {SubSeq(e, 1, i) : i \in 1..Len(e)}

\* -------------------------------------------------------------- filesystem
\* the tree below the working directory: ds is the set of directories and fs
\* maps each regular file to its content; a name is a sequence of elements

\* os.MkdirAll(dir, 0755); envOK = FALSE is a failure of the system itself
\* (permissions, read-only or full disk)
MkdirAllOK(ds, fs, dir, envOK) ==
  /\ envOK
  /\ \A q \in Prefixes(Elements(dir, <<>>)) : q \notin DOMAIN fs

MkdirAll(ds, dir) == ds \cup Prefixes(Elements(dir, <<>>))

\* os.Create(name): O_RDWR|O_CREATE|O_TRUNC.  The containing directory must
\* exist and the name must not be a directory
CreateOK(ds, fs, name, envOK) ==
  LET e == Elements(name, <<>>)
  IN /\ envOK
     /\ e # <<>>
     /\ e \notin ds
     /\ Len(e) > 1 => SubSeq(e, 1, Len(e) - 1) \in ds

Create(fs, name) ==
  LET e == Elements(name, <<>>)
  IN [q \in DOMAIN fs \cup {e} |-> IF q = e THEN <<>> ELSE fs[q]]

\* a write of bytes at offset 0 through a freshly opened descriptor: the
\* bytes replace the start of the file, what lies beyond them stays
WriteAt0(fs, name, bytes) ==
  LET e == Elements(name, <<>>)
  IN [fs EXCEPT ![e] = bytes \o SubSeq(fs[e], Len(bytes) + 1, Len(fs[e]))]

\* ------------------------------------------------------------ yaml encoding
\* the field names of all schemas, in the order yaml sorts map keys
KeyOrder == <<"flag", "joined_at", "name", "note", "ok", "stamp">>

\* a scalar: null, a boolean, or a string, quoted when the plain text would
\* read back as something else
YamlScalar(v) ==
  CASE v.t = "nil" -> NullText
    [] v.t = "bool" -> IF v.b THEN TrueText ELSE FalseText
    [] OTHER -> IF v.s \in {<<>>, NullText, TrueText, FalseText}
                THEN <<"\"">> \o v.s \o <<"\"">>
                ELSE v.s

\* yaml.NewEncoder(f).Encode(m) for a map m: one "key: value" line per key
RECURSIVE YamlLines(_, _)
YamlLines(m, keys) ==
  IF keys = <<>> THEN <<>>
  ELSE (IF Head(keys) \in DOMAIN m
        THEN <<Head(keys), ":", " ">> \o YamlScalar(m[Head(keys)]) \o <<"\n">>
        ELSE <<>>) \o YamlLines(m, Tail(keys))

YamlEncode(m) == IF DOMAIN m = {} THEN <<"{", "}", "\n">> ELSE YamlLines(m, KeyOrder)

\* ---------------------------------------------------------------- documents
\* datamgr.yaml as read by main: readOK is whether the file can be read,
\* yamlOK whether it is well-formed yaml, Receive its content
Document(receive) == [readOK |-> TRUE, yamlOK |-> TRUE, Receive |-> receive]
Unreadable == [readOK |-> FALSE, yamlOK |-> FALSE, Receive |-> [e \in {} |-> 0]]
Malformed == [readOK |-> TRUE, yamlOK |-> FALSE, Receive |-> [e \in {} |-> 0]]

NameField == Field(FALSE, Nil, "string", "", TRUE, <<>>)
JoinedAtField == Field(FALSE, Nil, "", "timestamp", FALSE, <<>>)
NoteField == Field(FALSE, Nil, "", "", FALSE, <<>>)
OkField == Field(FALSE, Nil, "bool", "", FALSE, <<>>)

\* route /signup with fields name (string, required) and joined_at
\* (generate=timestamp) and a file named by the template tmpl
SignupDoc(tmpl) ==
  Document("/signup" :> Receive(("name" :> NameField) @@ ("joined_at" :> JoinedAtField),
                                CreateFile(tmpl, "yaml")))

\* route /note with a required name and an optional note, written to
\* <name>/<name>, and a route /ping with an optional bool that writes no file
NoteDoc ==
  Document(("/note" :> Receive(("name" :> NameField) @@ ("note" :> NoteField),
                               CreateFile(NameTwice, "")))
           @@ ("/ping" :> Receive(("ok" :> OkField), NoCreateFile)))

\* a schema with an unknown field type
BadTypeDoc ==
  Document("/signup" :> Receive(("name" :> Field(FALSE, Nil, "int", "", TRUE, <<>>)), NoCreateFile))

ServedDocs == {SignupDoc(NameCall), SignupDoc(NameDot), NoteDoc,
               BadTypeDoc, Unreadable, Malformed}

\* ----------------------------------------------------------------- requests
\* the requests the server handles, named in the order of their arrival
Arrival == <<"r1", "r2">>
Requests == {Arrival[i] : i \in 1..Len(Arrival)}

Xs == <<"x">>
\* what a client may submit under field.flag: nothing, one value (a text
\* strconv.ParseBool accepts, or one it rejects), or two values
FlagSubmissions ==
  {<<>>, <<TrueText>>, <<FalseText>>, <<<<"1">>>>, <<<<"F">>>>, <<Xs>>, <<Xs, TrueText>>, <<TrueText, Xs>>}

\* what a client may submit under the field.<n> key of field f: nothing, or
\* one value; under field.flag also several values
Submissions(n, f) ==
  IF n = "flag" THEN FlagSubmissions
  ELSE IF f.Type = "bool" THEN {<<>>, <<TrueText>>, <<FalseText>>, <<Xs>>}
  ELSE IF f.Required THEN {<<>>, <<Alice>>, <<Xs>>}
  ELSE {<<>>, <<Xs>>}

\* the forms a client may submit to a route with the given fields
Forms(fields) == {form \in [DOMAIN fields -> UNION {Submissions(n, fields[n]) : n \in DOMAIN fields}] :
                    \A n \in DOMAIN fields : form[n] \in Submissions(n, fields[n])}
\* the callback form value and the Referer header
Callbacks == {<<>>, <<"c", "b">>}
RefererText == <<"r", "e", "f">>
\* request paths
Paths == {"/signup", "/note", "/ping", "/nope"}

NoFields == [n \in {} |-> NameField]
NoForm == [n \in {} |-> <<>>]
NoTimes == [n \in {} |-> 0]

IdleRequest ==
  [pc |-> "idle", path |-> "", parseOK |-> TRUE, form |-> NoForm, tm |-> NoTimes,
   Fields |-> NoFields, err |-> <<>>, fileName |-> <<>>, resp |-> <<>>,
   performed |-> FALSE, fsops |-> 0, callback |-> <<>>]

\* what the handler hands to the ResponseWriter: http.Error(w, msg, code),
\* http.NotFound and http.Redirect are one entry each
Response(code, msg, errs, location) == [code |-> code, msg |-> msg, errs |-> errs, location |-> location]

\* when the process exits its goroutines end with it: what the handlers held
\* is gone, only the files remain
Gone == [r \in Requests |-> IdleRequest]

\* ------------------------------------------------------------------- state
VARIABLES
  data,        \* the content of datamgr.yaml
  config,      \* Config.Receive, the compiled schema
  parseErr,    \* the error returned by Config.Parse
  mainPc,      \* main: "start", "wait" (<-ctx.Done()), "shutdown" (server.Shutdown)
  servePc,     \* the ListenAndServe goroutine: "none", "start", "accept"
  watchPc,     \* the goroutine of CancelSignals: "none", "select", "reset", "done"
               \* (ended after a signal), "exit" (ended on ctx.Done())
  ctxDone,     \* ctx has been cancelled
  signalChan,  \* the buffered channel of CancelSignals
  notify,      \* signal.Notify is in effect for the stop signals
  listener,    \* the listening socket: "none", "open", "closed"
  inShutdown,  \* http.Server.inShutdown
  exit,        \* "running", "exit0", "exit1" (log.Fatalf) or "killed"
  now,         \* the wall clock
  req,         \* per request: the handler's position and locals
  dirs,        \* directories below the working directory
  files        \* regular files below the working directory and their content

vars == <<data, config, parseErr, mainPc, servePc, watchPc, ctxDone, signalChan, notify,
          listener, inShutdown, exit, now, req, dirs, files>>

procVars == <<mainPc, servePc, watchPc, ctxDone, signalChan, notify, listener, inShutdown, exit>>

OutDir == <<<<"o", "u", "t">>>>

\* the working directory at start: empty, or with a directory out/
InitDirs == {{}, {OutDir}}

InitWith(docs) ==
  /\ data \in docs
  /\ config = [e \in {} |-> 0]
  /\ parseErr = <<>>
  /\ mainPc = "start"
  /\ servePc = "none"
  /\ watchPc = "none"
  /\ ctxDone = FALSE
  /\ signalChan = <<>>
  /\ notify = FALSE
  /\ listener = "none"
  /\ inShutdown = FALSE
  /\ exit = "running"
  /\ now = 0
  /\ req = [r \in Requests |-> IdleRequest]
  /\ dirs \in InitDirs
  /\ files = [q \in {} |-> <<>>]

Init == InitWith(ServedDocs)

\* -------------------------------------------------------------------- main
Running == exit = "running"

\* main up to the go statement: install the signal watcher, read and parse
\* datamgr.yaml (log.Fatalf on either error), start the ListenAndServe goroutine
MainStart ==
  /\ Running /\ mainPc = "start"
  /\ \E ord \in (IF data.yamlOK THEN ParseOrders(data) ELSE {[routes |-> <<>>, fields |-> <<>>]}) :
       LET p == Parse(data, ord)
       IN IF ~data.readOK
          THEN /\ exit' = "exit1"
               /\ UNCHANGED <<config, parseErr, mainPc, servePc>>
          ELSE /\ parseErr' = p.err
               /\ config' = p.Receive
               /\ IF p.err # <<>>
                  THEN exit' = "exit1" /\ UNCHANGED <<mainPc, servePc>>
                  ELSE mainPc' = "wait" /\ servePc' = "start" /\ UNCHANGED exit
  /\ watchPc' = "select"
  /\ notify' = TRUE
  /\ UNCHANGED <<data, ctxDone, signalChan, listener, inShutdown, now, req, dirs, files>>

\* the goroutine of main: server.ListenAndServe().  It returns
\* ErrServerClosed at once when Shutdown was already called, or the error of
\* binding the address; both are non-nil and end in log.Fatalf
ServeListen ==
  /\ Running /\ servePc = "start"
  /\ \E bindOK \in BOOLEAN :
       IF inShutdown \/ ~bindOK
       THEN exit' = "exit1" /\ UNCHANGED <<servePc, listener>>
       ELSE servePc' = "accept" /\ listener' = "open" /\ UNCHANGED exit
  /\ UNCHANGED <<data, config, parseErr, mainPc, watchPc, ctxDone, signalChan, notify,
                 inShutdown, now, req, dirs, files>>

\* the goroutine of main: Accept fails on the closed listener, ListenAndServe
\* returns ErrServerClosed, err != nil, log.Fatalf exits the process
ServeClosed ==
  /\ Running /\ servePc = "accept" /\ listener = "closed"
  /\ exit' = "exit1"
  /\ req' = Gone
  /\ UNCHANGED <<data, config, parseErr, mainPc, servePc, watchPc, ctxDone, signalChan, notify,
                 listener, inShutdown, now, dirs, files>>

\* the handlers that have started and not yet returned
InFlight == {r \in Requests : req[r].pc \notin {"idle", "done"}}

\* main: <-ctx.Done() returns and the deferred server.Shutdown starts: it
\* marks the server as shutting down and closes the listener
MainWait ==
  /\ Running /\ mainPc = "wait" /\ ctxDone
  /\ mainPc' = "shutdown"
  /\ inShutdown' = TRUE
  /\ listener' = IF listener = "open" THEN "closed" ELSE listener
  /\ UNCHANGED <<data, config, parseErr, servePc, watchPc, ctxDone, signalChan, notify,
                 exit, now, req, dirs, files>>

\* server.Shutdown(context.Background()) polls until no connection is
\* active, then returns; main returns and the process exits with status 0
ShutdownReturn ==
  /\ Running /\ mainPc = "shutdown"
  /\ InFlight = {}
  /\ exit' = "exit0"
  /\ req' = Gone
  /\ UNCHANGED <<data, config, parseErr, mainPc, servePc, watchPc, ctxDone, signalChan, notify,
                 listener, inShutdown, now, dirs, files>>

\* ------------------------------------------------------------ signal watcher
\* the environment delivers SIGTERM or an interrupt.  Under signal.Notify it
\* is sent to signalChan without blocking (dropped when the buffer of one is
\* full); otherwise the default disposition terminates the process
Signal ==
  /\ Running
  /\ IF notify
     THEN /\ Len(signalChan) < 1
          /\ signalChan' = Append(signalChan, "stop")
          /\ UNCHANGED <<exit, req>>
     ELSE /\ exit' = "killed"
          /\ req' = Gone
          /\ UNCHANGED signalChan
  /\ UNCHANGED <<data, config, parseErr, mainPc, servePc, watchPc, ctxDone, notify,
                 listener, inShutdown, now, dirs, files>>

\* CancelSignals, case s := <-signalChan: log and cancelContext()
WatcherSignalNoCancel ==
  /\ Running /\ watchPc = "select" /\ signalChan # <<>>
  /\ signalChan' = Tail(signalChan)
  /\ watchPc' = "reset"
  /\ UNCHANGED <<data, config, parseErr, mainPc, servePc, ctxDone, notify,
                 listener, inShutdown, exit, now, req, dirs, files>>

WatcherSignal ==
  /\ Running /\ watchPc = "select" /\ signalChan # <<>>
  /\ signalChan' = Tail(signalChan)
  /\ ctxDone' = TRUE
  /\ watchPc' = "reset"
  /\ UNCHANGED <<data, config, parseErr, mainPc, servePc, notify,
                 listener, inShutdown, exit, now, req, dirs, files>>

\* CancelSignals: signal.Reset(signals...), then the goroutine ends
WatcherReset ==
  /\ Running /\ watchPc = "reset"
  /\ notify' = FALSE
  /\ watchPc' = "done"
  /\ UNCHANGED <<data, config, parseErr, mainPc, servePc, ctxDone, signalChan,
                 listener, inShutdown, exit, now, req, dirs, files>>

\* CancelSignals, case <-ctx.Done(): break, and the goroutine ends; the signals
\* stay routed to signalChan
WatcherCtxDone ==
  /\ Running /\ watchPc = "select" /\ ctxDone
  /\ watchPc' = "exit"
  /\ UNCHANGED <<data, config, parseErr, mainPc, servePc, ctxDone, signalChan, notify,
                 listener, inShutdown, exit, now, req, dirs, files>>

\* the context handed to CancelSignals is cancelled by its owner rather than
\* by the watcher.  main keeps stopContext to itself and never calls it, so
\* this step is no part of Next
CancelOther ==
  /\ Running /\ watchPc # "none" /\ ~ctxDone
  /\ ctxDone' = TRUE
  /\ UNCHANGED <<data, config, parseErr, mainPc, servePc, watchPc, signalChan, notify,
                 listener, inShutdown, exit, now, req, dirs, files>>

\* ----------------------------------------------------------- request handler
Generated(fields) == {n \in DOMAIN fields : fields[n].generateCode = GenerateCodeTimestamp}

MaxOf(S) == CHOOSE m \in S : \A x \in S : x <= m

\* the clock readings of one run of the field loop started at instant t0:
\* each generated field reads the clock once, later in the loop is not earlier
Readings(fields, ford, t0) ==
  {tm \in [DOMAIN fields -> t0..MaxTime] :
     /\ \A n \in DOMAIN fields \ Generated(fields) : tm[n] = t0
     /\ \A i, j \in 1..Len(ford) :
          (i < j /\ ford[i] \in Generated(fields) /\ ford[j] \in Generated(fields))
             => tm[ford[i]] <= tm[ford[j]]}

\* ConfigReceive.ServeHTTP after the field loop: a non-nil error is answered
\* with 400 and the handler returns; otherwise Perform is called when the
\* route has a create_file, and then the redirect is sent
AfterResolveAlways(err, createFile) ==
  IF createFile.present THEN "render" ELSE "redirect"

AfterResolve(err, createFile) ==
  IF err # <<>> THEN "done"
  ELSE IF createFile.present THEN "render" ELSE "redirect"

\* Config.ServeHTTP when c.Receive has no handler for the path: http.NotFound
\* and return; q is the request's record
NotFoundContinue(q, path) ==
  [q EXCEPT !.pc = "redirect", !.path = path,
            !.resp = <<Response(StatusNotFound, "404 page not found", <<>>, <<>>)>>]

NotFound(q, path) ==
  [q EXCEPT !.pc = "done", !.path = path,
            !.resp = <<Response(StatusNotFound, "404 page not found", <<>>, <<>>)>>]

\* Config.ServeHTTP and ConfigReceive.ServeHTTP up to the call of Perform:
\* route lookup (404), form parsing (400), the field loop (400 on error)
Start(r) ==
  /\ Running /\ servePc = "accept" /\ listener = "open"
  /\ req[r].pc = "idle"
  /\ \A i, j \in 1..Len(Arrival) : (i < j /\ Arrival[j] = r) => req[Arrival[i]].pc # "idle"
  /\ \E path \in Paths :
       IF path \notin DOMAIN config
       THEN /\ req' = [req EXCEPT ![r] = NotFound(@, path)]
            /\ UNCHANGED <<config, now>>
       ELSE \E parseOK \in BOOLEAN :
         IF ~parseOK
         THEN /\ req' = [req EXCEPT ![r] = [@ EXCEPT !.pc = "done", !.path = path, !.parseOK = FALSE,
                           !.resp = <<Response(StatusBadRequest, "Error parsing form", <<>>, <<>>)>>]]
              /\ UNCHANGED <<config, now>>
         ELSE LET c == config[path] IN
           \E form \in Forms(c.Fields), ford \in Orders(DOMAIN c.Fields) :
             \E tm \in Readings(c.Fields, ford, now) :
               LET res == ResolveFields([err |-> <<>>, Fields |-> NoFields, schema |-> c.Fields],
                                        form, tm, ford)
               IN /\ req' = [req EXCEPT ![r] = [@ EXCEPT
                               !.pc = AfterResolve(res.err, c.CreateFile),
                               !.path = path, !.form = form, !.tm = tm,
                               !.Fields = res.Fields, !.err = res.err,
                               !.resp = IF res.err # <<>>
                                        THEN <<Response(StatusBadRequest, "fields", res.err, <<>>)>>
                                        ELSE <<>>]]
                  /\ config' = [config EXCEPT ![path].Fields = res.schema]
                  /\ now' = MaxOf({now} \cup {tm[n] : n \in Generated(c.Fields)})
  /\ UNCHANGED <<data, parseErr, procVars, dirs, files>>

\* ConfigCreateFile.Perform, first part: clone the template, bind the field
\* accessor, execute.  An error is answered with 500 and Perform returns to
\* ServeHTTP, which goes on to the redirect
Render(r) ==
  /\ Running /\ req[r].pc = "render"
  /\ LET t == CloneAndBind(config[req[r].path].CreateFile.nameTemplate, r)
         e == Execute(t, fieldMap(req[t.funcs["field"]].Fields))
     IN req' = [req EXCEPT ![r] = [@ EXCEPT
                  !.performed = TRUE,
                  !.pc = IF e.err THEN "redirect" ELSE "mkdir",
                  !.fileName = IF e.err THEN <<>> ELSE e.out,
                  !.resp = IF e.err
                           THEN Append(@, Response(StatusInternalServerError,
                                  "Could not process request due to misconfiguration.", <<>>, <<>>))
                           ELSE @]]
  /\ UNCHANGED <<data, config, parseErr, procVars, now, dirs, files>>

SystemError ==
  Response(StatusInternalServerError,
           "Could not process request due to a system error, please try again later.", <<>>, <<>>)

\* the directory Perform creates for the file name: path.Base(fileName)
PerformDir(fileName) == pathBase(fileName)

\* Perform: dir := path.Base(fileName); os.MkdirAll(dir, 0755)
Mkdir(r) ==
  /\ Running /\ req[r].pc = "mkdir"
  /\ \E envOK \in BOOLEAN :
       LET dir == PerformDir(req[r].fileName) IN
       IF MkdirAllOK(dirs, files, dir, envOK)
       THEN /\ dirs' = MkdirAll(dirs, dir)
            /\ req' = [req EXCEPT ![r] = [@ EXCEPT !.pc = "create",
                         !.fsops = IF dirs' # dirs THEN @ + 1 ELSE @]]
       ELSE /\ req' = [req EXCEPT ![r] = [@ EXCEPT !.pc = "redirect", !.resp = Append(@, SystemError)]]
            /\ UNCHANGED dirs
  /\ UNCHANGED <<data, config, parseErr, procVars, now, files>>

\* Perform: os.Create(fileName)
CreateStep(r) ==
  /\ Running /\ req[r].pc = "create"
  /\ \E envOK \in BOOLEAN :
       IF CreateOK(dirs, files, req[r].fileName, envOK)
       THEN /\ files' = Create(files, req[r].fileName)
            /\ req' = [req EXCEPT ![r] = [@ EXCEPT !.pc = "encode", !.fsops = @ + 1]]
       ELSE /\ req' = [req EXCEPT ![r] = [@ EXCEPT !.pc = "redirect", !.resp = Append(@, SystemError)]]
            /\ UNCHANGED files
  /\ UNCHANGED <<data, config, parseErr, procVars, now, dirs>>

\* Perform: encode the field map into the file, then the deferred f.Close().
\* A format code other than yaml panics; net/http recovers the panic and
\* closes the connection without a response
Encode(r) ==
  /\ Running /\ req[r].pc = "encode"
  /\ IF config[req[r].path].CreateFile.formatCode # FormatCodeYAML
     THEN /\ req' = [req EXCEPT ![r] = [@ EXCEPT !.pc = "done"]]
          /\ UNCHANGED files
     ELSE \E envOK \in BOOLEAN :
       IF envOK
       THEN /\ files' = WriteAt0(files, req[r].fileName, YamlEncode(fieldMap(req[r].Fields)))
            /\ req' = [req EXCEPT ![r] = [@ EXCEPT !.pc = "redirect"]]
       ELSE /\ req' = [req EXCEPT ![r] = [@ EXCEPT !.pc = "redirect",
                         !.resp = Append(@, Response(StatusInternalServerError,
                                     "Could not process request because of data error.", <<>>, <<>>))]]
            /\ UNCHANGED files
  /\ UNCHANGED <<data, config, parseErr, procVars, now, dirs>>

\* the target of the redirect: the callback form value when it is not empty,
\* the Referer otherwise
RedirectTargetReferer(cb, referer) == referer

RedirectTarget(cb, referer) == IF cb # <<>> THEN cb ELSE referer

\* ConfigReceive.ServeHTTP after Perform: http.Redirect to the callback form
\* value when it is not empty, to the Referer otherwise.  Both are read only
\* here, so the request's choice of them is made here
Redirect(r) ==
  /\ Running /\ req[r].pc = "redirect"
  /\ \E cb \in Callbacks :
       req' = [req EXCEPT ![r] = [@ EXCEPT !.pc = "done", !.callback = cb,
                 !.resp = Append(@, Response(StatusSeeOther, "See Other", <<>>,
                                             RedirectTarget(cb, RefererText)))]]
  /\ UNCHANGED <<data, config, parseErr, procVars, now, dirs, files>>

\* ------------------------------------------------------------ specification
Next ==
  \/ MainStart
  \/ ServeListen
  \/ ServeClosed
  \/ MainWait
  \/ ShutdownReturn
  \/ Signal
  \/ WatcherSignal
  \/ WatcherReset
  \/ \E r \in Requests : Start(r)
  \/ \E r \in Requests : Render(r)
  \/ \E r \in Requests : Mkdir(r)
  \/ \E r \in Requests : CreateStep(r)
  \/ \E r \in Requests : Encode(r)
  \/ \E r \in Requests : Redirect(r)

Spec == Init /\ [][Next]_vars

\* ---------------------------------------------------- schema compilation only
\* schema documents with every kind of defect: route /signup with fields name
\* and stamp of any generate and type, with or without a create_file of any
\* name and format, and optionally a route /ping
GenerateWords == {"", "timestamp", "uuid"}
TypeWords == {"", "string", "bool", "int"}
CreateFiles ==
  {NoCreateFile} \cup {CreateFile(n, f) : n \in {NameDot, NameUnclosed, NameNoFunc}, f \in {"", "yaml", "json"}}
PingRoutes ==
  {Receive(("ok" :> Field(FALSE, Nil, t, "", FALSE, <<>>)), cf) :
     t \in {"bool", "float"}, cf \in {NoCreateFile, CreateFile(NameUnclosed, "xml")}}

ParseDocs ==
  {Document("/signup" :> Receive(("name" :> Field(FALSE, Nil, t1, g1, TRUE, <<>>))
                                 @@ ("stamp" :> Field(FALSE, Nil, t2, g2, FALSE, <<>>)), cf)) :
     t1 \in TypeWords, g1 \in GenerateWords, t2 \in TypeWords, g2 \in GenerateWords, cf \in CreateFiles}
  \cup
  {Document(("/signup" :> Receive(("name" :> Field(FALSE, Nil, t1, g1, TRUE, <<>>)), cf))
            @@ ("/ping" :> ping)) :
     t1 \in TypeWords, g1 \in GenerateWords, cf \in CreateFiles, ping \in PingRoutes}

InitParse == InitWith(ParseDocs)

\* main up to the end of config.Parse, nothing served
SpecParse == InitParse /\ [][MainStart]_vars

\* ------------------------------------------------- one form, every kind of field
\* schema documents with route /signup holding the required string field name
\* and a field flag of every combination of internal, value, type, generate
\* and required, written to out/<name>.yaml
FlagValue == <<"v">>
FlagFields ==
  {Field(i, v, t, g, q, <<>>) :
     i \in BOOLEAN, v \in {Nil, Str(FlagValue)}, t \in {"string", "bool"},
     g \in {"", "timestamp"}, q \in BOOLEAN}

FieldDocs ==
  {Document("/signup" :> Receive(("name" :> NameField) @@ ("flag" :> f), CreateFile(NameDot, "yaml"))) :
     f \in FlagFields}

InitFields == InitWith(FieldDocs)

\* the server started and one request handled, without a stop signal
NextFields ==
  \/ MainStart
  \/ ServeListen
  \/ Start(Arrival[1])
  \/ Render(Arrival[1])
  \/ Mkdir(Arrival[1])
  \/ CreateStep(Arrival[1])
  \/ Encode(Arrival[1])
  \/ Redirect(Arrival[1])

SpecFields == InitFields /\ [][NextFields]_vars

\* ------------------------------------------------------- the signal watcher
\* the server with one request, the stop signals, and a context that may also
\* be cancelled by its owner; goroutines that can take a step eventually do
NextWatcher ==
  \/ MainStart
  \/ ServeListen
  \/ ServeClosed
  \/ MainWait
  \/ ShutdownReturn
  \/ Signal
  \/ CancelOther
  \/ WatcherSignal
  \/ WatcherCtxDone
  \/ WatcherReset
  \/ Start(Arrival[1])
  \/ Render(Arrival[1])
  \/ Mkdir(Arrival[1])
  \/ CreateStep(Arrival[1])
  \/ Encode(Arrival[1])
  \/ Redirect(Arrival[1])

SpecWatcher ==
  /\ Init /\ [][NextWatcher]_vars
  /\ WF_vars(WatcherSignal) /\ WF_vars(WatcherCtxDone) /\ WF_vars(WatcherReset)
  /\ WF_vars(MainWait)

\* ================================================================== claims
\* the status line the client receives: the first WriteHeader wins
Status(r) == req[r].resp[1].code

\* the handler of r has returned after a single answer with the redirect
Succeeded(r) ==
  /\ req[r].pc = "done"
  /\ Len(req[r].resp) = 1
  /\ Status(r) = StatusSeeOther

\* sub occurs in txt as a contiguous run
Contains(txt, sub) ==
  \E i \in 0..(Len(txt) - Len(sub)) : SubSeq(txt, i + 1, i + Len(sub)) = sub

AliceYaml == <<<<"o", "u", "t">>, Alice \o <<".", "y", "a", "m", "l">>>>

\* C1: with the /signup schema whose file name template is
\* out/{{ field "name" }}.yaml, a request carrying field.name=alice that has
\* been handled has created out/alice.yaml containing "name: alice" and a
\* joined_at key, and has been answered with a redirect
C1_SignupEndToEnd ==
  \A r \in Requests :
    (/\ data = SignupDoc(NameCall)
     /\ req[r].pc = "done" /\ req[r].path = "/signup" /\ req[r].parseOK
     /\ req[r].form["name"] = <<Alice>>)
    => /\ Status(r) = StatusSeeOther
       /\ AliceYaml \in DOMAIN files
       /\ Contains(files[AliceYaml], <<"name", ":", " ">> \o Alice \o <<"\n">>)
       /\ Contains(files[AliceYaml], <<"joined_at", ":", " ">>)

\* C2: a request in which at least one field failed to resolve is answered
\* with 400 and nothing else: Perform is never invoked for it and it creates
\* or truncates no directory and no file
C2_NoFileOnRejection ==
  \A r \in Requests :
    (req[r].pc # "idle" /\ req[r].err # <<>>)
    => /\ req[r].pc = "done"
       /\ Len(req[r].resp) = 1
       /\ Status(r) = StatusBadRequest
       /\ ~req[r].performed
       /\ req[r].fsops = 0

\* a rejected request has returned, one with a missing required field and one
\* with an unparsable bool, while the server keeps running
C2_Witness ==
  \E r \in Requests :
    /\ req[r].pc = "done" /\ req[r].err # <<>>
    /\ req[r].err[1].why \in {"required", "bool"}
    /\ Status(r) = StatusBadRequest
    /\ \E q \in Requests \ {r} : req[q].fsops > 0

\* C3: the process never exits (by returning from main or by log.Fatalf)
\* while a handler is still running
C3_GracefulShutdown ==
  [][(exit = "running" /\ exit' \in {"exit0", "exit1"}) => InFlight = {}]_vars

\* C4: a request to a configured route gets exactly one answer, 400, 500 or
\* 303; a handler that answered 500 does not go on to issue the redirect
C4_OneOutcome ==
  \A r \in Requests :
    (req[r].pc = "done" /\ req[r].path \in DOMAIN config)
    => /\ Len(req[r].resp) = 1
       /\ Status(r) \in {StatusBadRequest, StatusInternalServerError, StatusSeeOther}

\* C5: when Perform is about to create the output file, the directory that
\* contains the rendered path exists
C5_ContainingDirectory ==
  \A r \in Requests :
    req[r].pc = "create"
    => LET e == Elements(req[r].fileName, <<>>)
       IN Len(e) > 1 => SubSeq(e, 1, Len(e) - 1) \in dirs

\* C6: the value of a generate=timestamp field in the Record is the time the
\* field read, rendered in the field's layout, whatever was submitted
C6_GeneratedWins ==
  \A r \in Requests :
    \A n \in DOMAIN req[r].Fields :
      (req[r].err = <<>> /\ config[req[r].path].Fields[n].Generate = "timestamp")
      => req[r].Fields[n].Value
           = Str(TimeFormat(config[req[r].path].Fields[n].Format, req[r].tm[n]))

\* C7: when two requests that rendered the same path have both succeeded, the
\* file holds the complete encoding of the Record of one of them
C7_LastWriterWins ==
  \A r, q \in Requests :
    (/\ r # q /\ Succeeded(r) /\ Succeeded(q)
     /\ req[r].performed /\ req[q].performed
     /\ req[r].fileName = req[q].fileName)
    => files[Elements(req[r].fileName, <<>>)]
         \in {YamlEncode(fieldMap(req[r].Fields)), YamlEncode(fieldMap(req[q].Fields))}

\* main has read a well-formed document and Parse has returned
Parsed == data.readOK /\ data.yamlOK /\ (mainPc # "start" \/ exit = "exit1")

\* the schema as main compiled it at startup
Compiled(d) ==
  Parse(d, [routes |-> CHOOSE o \in Orders(DOMAIN d.Receive) : TRUE,
            fields |-> [e \in DOMAIN d.Receive |-> CHOOSE o \in Orders(DOMAIN d.Receive[e].Fields) : TRUE]]).Receive

\* the values the Record of r may hold for field n of schema field f: what
\* the schema holds, what r itself submitted last (as text or as a bool), and
\* the time r itself read
OwnValues(r, n, f) ==
  {f.Value, Str(TimeFormat(f.Format, req[r].tm[n]))}
  \cup (IF req[r].form[n] = <<>> THEN {}
        ELSE {Str(Last(req[r].form[n])), Bool(TRUE), Bool(FALSE)})

RecordIsOwn(r) ==
  \A n \in DOMAIN req[r].Fields :
    req[r].Fields[n].Value \in OwnValues(r, n, config[req[r].path].Fields[n])

\* C8: at every moment after startup the schema is what main compiled from
\* the document, so no step of a handler has modified it, and the Record of
\* a request holds only values of the schema, of its own form and of its own
\* clock readings
C8_SchemaReadOnly ==
  /\ Parsed => config = Compiled(data)
  /\ \A r \in Requests : RecordIsOwn(r)

\* two requests to the same route are in flight with different submitted
\* names, one of them past the rendering of its path
C8_Witness ==
  \E r, q \in Requests :
    /\ r # q
    /\ req[r].path = "/signup" /\ req[q].path = "/signup"
    /\ req[r].pc = "encode" /\ req[q].pc = "mkdir"
    /\ req[r].Fields["name"].Value = Str(Alice)
    /\ req[q].Fields["name"].Value = Str(Xs)

\* file name templates that do not parse
BrokenNames == {NameUnclosed, NameNoFunc}

\* the defects of a schema document: per route, each field whose generate
\* word is unknown, each field whose type word is unknown, a file name
\* template that does not parse, a file format that is unknown
RouteDefects(e, r) ==
  {SchemaErr(e, n, "generate") : n \in {m \in DOMAIN r.Fields : r.Fields[m].Generate \notin {"", "timestamp"}}}
  \cup {SchemaErr(e, n, "type") : n \in {m \in DOMAIN r.Fields : r.Fields[m].Type \notin {"", "string", "bool"}}}
  \cup (IF r.CreateFile.present /\ r.CreateFile.Name \in BrokenNames
        THEN {SchemaErr(e, "", "create_file.name")} ELSE {})
  \cup (IF r.CreateFile.present /\ r.CreateFile.Format \notin {"", "yaml"}
        THEN {SchemaErr(e, "", "create_file.format")} ELSE {})

DefectSites(d) == UNION {RouteDefects(e, d.Receive[e]) : e \in DOMAIN d.Receive}

\* C9: the error Parse returns for a well-formed document holds exactly one
\* entry per defect of the document, and is nil when there is none
C9_ParseAggregates ==
  Parsed => /\ Len(parseErr) = Cardinality(DefectSites(data))
            /\ {parseErr[i] : i \in 1..Len(parseErr)} = DefectSites(data)

\* Parse has returned an error with five entries or more, from both routes and
\* about fields as well as about the file
C9_Witness ==
  /\ Parsed
  /\ Len(parseErr) >= 5
  /\ \E i, j \in 1..Len(parseErr) : parseErr[i].endpoint # parseErr[j].endpoint
  /\ \E i, j \in 1..Len(parseErr) : parseErr[i].part = "generate" /\ parseErr[j].part = "create_file.format"

\* C10: a request that submits nothing for a non-internal required field is
\* answered with 400 and the message names the field
C10_MissingRequired ==
  \A r \in Requests :
    (req[r].pc # "idle" /\ req[r].path \in DOMAIN config /\ req[r].parseOK)
    => \A n \in DOMAIN config[req[r].path].Fields :
         (/\ ~config[req[r].path].Fields[n].Internal
          /\ config[req[r].path].Fields[n].Required
          /\ req[r].form[n] = <<>>)
         => /\ req[r].pc = "done"
            /\ Status(r) = StatusBadRequest
            /\ \E i \in 1..Len(req[r].resp[1].errs) : req[r].resp[1].errs[i].field = n

\* a request without field.name has been answered 400, the message naming
\* "name"
C10_Witness ==
  \E r \in Requests :
    /\ req[r].pc = "done" /\ req[r].path = "/signup" /\ req[r].parseOK
    /\ req[r].form["name"] = <<>>
    /\ req[r].form["joined_at"] # <<>>
    /\ Status(r) = StatusBadRequest
    /\ req[r].resp[1].errs = <<FieldErr("name", "required")>>

\* C11: a request whose path is not a route of the compiled schema is answered
\* with 404 and nothing else: the handler has returned with that single
\* answer, no form was parsed, no field resolved, no path rendered, and no
\* directory or file was created for it
C11_UnknownRoute ==
  \A r \in Requests :
    (req[r].pc # "idle" /\ req[r].path \notin DOMAIN config)
    => /\ req[r].pc = "done"
       /\ req[r].resp = <<Response(StatusNotFound, "404 page not found", <<>>, <<>>)>>
       /\ req[r].form = NoForm /\ req[r].tm = NoTimes
       /\ req[r].Fields = NoFields /\ req[r].err = <<>>
       /\ ~req[r].performed /\ req[r].fileName = <<>>
       /\ req[r].fsops = 0

\* a request to /nope has been answered 404 by a server that has routes, while
\* another request to a configured route has written to the filesystem
C11_Witness ==
  \E r \in Requests :
    /\ req[r].pc = "done" /\ req[r].path = "/nope"
    /\ DOMAIN config # {}
    /\ Status(r) = StatusNotFound
    /\ \E q \in Requests \ {r} : req[q].fsops > 0

\* the handler of r reached the field loop of a configured route
Handled(r) == req[r].pc # "idle" /\ req[r].path \in DOMAIN config /\ req[r].parseOK

\* the fields of the route of r as the schema declares them
SchemaOf(r) == config[req[r].path].Fields

\* the last of the values r submitted under field.<n>
Submitted(r, n) == req[r].form[n][Len(req[r].form[n])]

\* the non-internal bool fields of the route of r that r submitted a value for
BoolInputs(r) ==
  {n \in DOMAIN SchemaOf(r) :
     ~SchemaOf(r)[n].Internal /\ SchemaOf(r)[n].Type = "bool" /\ req[r].form[n] # <<>>}

\* the line of a yaml mapping for key n and the boolean b
BoolLine(n, b) == <<n, ":", " ">> \o (IF b THEN TrueText ELSE FalseText) \o <<"\n">>

\* the field resolves to the boolean the submitted text denotes, or the
\* request is rejected with 400 when the text denotes none
C12_Resolved ==
  \A r \in Requests :
    Handled(r) =>
      \A n \in BoolInputs(r) :
        IF Submitted(r, n) \in BoolTrueTexts \cup BoolFalseTexts
        THEN req[r].Fields[n].Value = Bool(Submitted(r, n) \in BoolTrueTexts)
        ELSE /\ req[r].pc = "done"
             /\ Len(req[r].resp) = 1
             /\ Status(r) = StatusBadRequest

\* the step of Perform that encodes the Record of r into its file without error
Written(r) ==
  /\ req[r].pc = "encode" /\ req'[r].pc = "redirect"
  /\ req'[r].resp = req[r].resp

\* C12: a non-internal bool field with a submitted value resolves to the
\* boolean the canonical parser reads from the value (true for 1, t, T, true,
\* TRUE, True; false for 0, f, F, false, FALSE, False), and that boolean is what
\* the handler writes to the output file under the field's key; a value the
\* parser rejects makes the request fail with 400
C12_BoolCoercion ==
  /\ []C12_Resolved
  /\ [][\A r \in Requests :
          Written(r) =>
            \A n \in BoolInputs(r) :
              Contains(files'[Elements(req[r].fileName, <<>>)],
                       BoolLine(n, Submitted(r, n) \in BoolTrueTexts))]_vars

\* a request that submitted 1 for the bool field flag has succeeded and its
\* file holds "flag: true"
C12_Witness ==
  \E r \in Requests :
    /\ Succeeded(r) /\ req[r].performed
    /\ "flag" \in BoolInputs(r)
    /\ req[r].form["flag"] = <<<<"1">>>>
    /\ Elements(req[r].fileName, <<>>) \in DOMAIN files
    /\ Contains(files[Elements(req[r].fileName, <<>>)], BoolLine("flag", TRUE))

\* the non-internal fields of the route of r under whose key r submitted
\* several values
MultiInputs(r) ==
  {n \in DOMAIN SchemaOf(r) : ~SchemaOf(r)[n].Internal /\ Len(req[r].form[n]) > 1}

\* C13: when several values are submitted for a non-internal field, the
\* resolved value is the last one (as text for a string field, as the boolean
\* it denotes for a bool field, the request being rejected when it denotes
\* none), whatever the values before it
C13_LastValueWins ==
  \A r \in Requests :
    Handled(r) =>
      \A n \in MultiInputs(r) :
        IF SchemaOf(r)[n].Type \in {"", "string"}
        THEN req[r].Fields[n].Value = Str(Submitted(r, n))
        ELSE IF Submitted(r, n) \in BoolTrueTexts \cup BoolFalseTexts
        THEN req[r].Fields[n].Value = Bool(Submitted(r, n) \in BoolTrueTexts)
        ELSE req[r].pc = "done" /\ Status(r) = StatusBadRequest

\* a request that submitted x and then true for the string field flag has
\* succeeded with the text true in its Record
C13_Witness ==
  \E r \in Requests :
    /\ Succeeded(r) /\ req[r].performed
    /\ "flag" \in MultiInputs(r)
    /\ SchemaOf(r)["flag"].Type = "string"
    /\ req[r].form["flag"] = <<Xs, TrueText>>
    /\ req[r].Fields["flag"].Value = Str(TrueText)

\* the fields named by the entries of the error of r
Failed(r) == {req[r].err[i].field : i \in 1..Len(req[r].err)}

\* C14: an internal field never fails to resolve and its value does not
\* depend on the form: it is the timestamp the field read when generate is
\* timestamp, and what the schema holds for the field otherwise
C14_InternalIgnoresInput ==
  \A r \in Requests :
    Handled(r) =>
      \A n \in DOMAIN SchemaOf(r) :
        SchemaOf(r)[n].Internal =>
          /\ n \notin Failed(r)
          /\ req[r].Fields[n].Value =
               IF SchemaOf(r)[n].Generate = "timestamp"
               THEN Str(TimeFormat(SchemaOf(r)[n].Format, req[r].tm[n]))
               ELSE SchemaOf(r)[n].Value

\* a request that submitted x for the internal, required, bool field flag,
\* whose schema value is v, has succeeded with v in its Record
C14_Witness ==
  \E r \in Requests :
    /\ Succeeded(r) /\ req[r].performed
    /\ SchemaOf(r)["flag"].Internal /\ SchemaOf(r)["flag"].Required
    /\ SchemaOf(r)["flag"].Type = "bool" /\ SchemaOf(r)["flag"].Generate = ""
    /\ req[r].form["flag"] = <<Xs>>
    /\ req[r].Fields["flag"].Value = Str(FlagValue)

\* C15: a field whose generate is timestamp always resolves to a value and
\* never fails, whatever is submitted and whatever its required and type are
C15_GenerationNeverFails ==
  \A r \in Requests :
    Handled(r) =>
      \A n \in DOMAIN SchemaOf(r) :
        SchemaOf(r)[n].Generate = "timestamp" =>
          /\ n \notin Failed(r)
          /\ req[r].Fields[n].Value # Nil

\* the fields of the route of r whose resolution fails on the form of r: not
\* internal and either required with nothing submitted, or of type bool with
\* a last value that denotes no boolean
Failing(r) ==
  {n \in DOMAIN SchemaOf(r) :
     /\ ~SchemaOf(r)[n].Internal
     /\ \/ req[r].form[n] = <<>> /\ SchemaOf(r)[n].Required
        \/ /\ req[r].form[n] # <<>> /\ SchemaOf(r)[n].Type = "bool"
           /\ Submitted(r, n) \notin BoolTrueTexts \cup BoolFalseTexts}

\* C16: every field of the route is resolved even after one has failed, the
\* error holds one entry per failing field and no other, and when it is not
\* empty it is what the 400 answer carries
C16_AllErrorsCollected ==
  \A r \in Requests :
    Handled(r) =>
      /\ DOMAIN req[r].Fields = DOMAIN SchemaOf(r)
      /\ Failed(r) = Failing(r)
      /\ Len(req[r].err) = Cardinality(Failing(r))
      /\ Failing(r) # {} =>
           /\ req[r].pc = "done" /\ Len(req[r].resp) = 1
           /\ Status(r) = StatusBadRequest
           /\ req[r].resp[1].errs = req[r].err

\* a request without field.name and with x for the bool field flag has been
\* answered 400 with two entries, one per field
C16_Witness ==
  \E r \in Requests :
    /\ Handled(r) /\ req[r].pc = "done"
    /\ Failing(r) = {"name", "flag"}
    /\ Status(r) = StatusBadRequest
    /\ Len(req[r].resp[1].errs) = 2
    /\ \E i, j \in 1..2 :
         /\ req[r].resp[1].errs[i] = FieldErr("name", "required")
         /\ req[r].resp[1].errs[j] = FieldErr("flag", "bool")

\* the handler of r has returned, every field resolved and nothing in Perform
\* failed
Successful(r) ==
  /\ Handled(r) /\ req[r].pc = "done"
  /\ req[r].err = <<>>
  /\ \A i \in 1..Len(req[r].resp) : req[r].resp[i].code # StatusInternalServerError

\* C17: a successful request, on a route with or without a create_file, is
\* answered with 303 and nothing else; the target is the submitted callback
\* when it is not empty and the Referer otherwise
C17_RedirectTarget ==
  \A r \in Requests :
    Successful(r) =>
      /\ Len(req[r].resp) = 1
      /\ Status(r) = StatusSeeOther
      /\ req[r].resp[1].location =
           IF req[r].callback # <<>> THEN req[r].callback ELSE RefererText

\* a request to /ping, which writes no file, was redirected to its callback
\* and a request to /note, which wrote its file, to its Referer
C17_Witness ==
  \E r, q \in Requests :
    /\ Successful(r) /\ req[r].path = "/ping" /\ ~req[r].performed
    /\ req[r].callback # <<>> /\ req[r].resp[1].location = req[r].callback
    /\ Successful(q) /\ req[q].path = "/note" /\ req[q].fsops > 0
    /\ req[q].callback = <<>> /\ req[q].resp[1].location = RefererText

\* the keys of a yaml mapping: the tokens that start a line and are followed
\* by a colon
FileKeys(txt) ==
  {txt[i] : i \in {j \in 1..(Len(txt) - 1) : txt[j + 1] = ":" /\ (j = 1 \/ txt[j - 1] = "\n")}}

\* the number of lines of a text
FileLines(txt) == Cardinality({i \in 1..Len(txt) : txt[i] = "\n"})

\* the non-internal, non-generated, optional fields of the route of r for
\* which r submitted nothing
AbsentOptional(r) ==
  {n \in DOMAIN SchemaOf(r) :
     /\ ~SchemaOf(r)[n].Internal /\ SchemaOf(r)[n].Generate = ""
     /\ ~SchemaOf(r)[n].Required /\ req[r].form[n] = <<>>}

\* C18: an optional field for which nothing is submitted does not fail and
\* holds nothing of the request, only what the schema holds for it; the Record
\* of a successful request has one entry per field of the route, and the file
\* it wrote has one line per field of the route, keyed by the field names
C18_OptionalAndKeySet ==
  \A r \in Requests :
    /\ Handled(r) =>
         \A n \in AbsentOptional(r) :
           /\ n \notin Failed(r)
           /\ req[r].Fields[n].Value = SchemaOf(r)[n].Value
    /\ Successful(r) =>
         /\ DOMAIN req[r].Fields = DOMAIN SchemaOf(r)
         /\ req[r].performed =>
              /\ FileKeys(files[Elements(req[r].fileName, <<>>)]) = DOMAIN SchemaOf(r)
              /\ FileLines(files[Elements(req[r].fileName, <<>>)]) = Cardinality(DOMAIN SchemaOf(r))

\* a request that submitted nothing for the optional field flag, which has no
\* value in the schema, has succeeded and its file has the lines of flag and
\* of name
C18_Witness ==
  \E r \in Requests :
    /\ Successful(r) /\ req[r].performed
    /\ "flag" \in AbsentOptional(r)
    /\ req[r].Fields["flag"].Value = Nil
    /\ FileKeys(files[Elements(req[r].fileName, <<>>)]) = {"flag", "name"}
    /\ Contains(files[Elements(req[r].fileName, <<>>)], <<"flag", ":", " ">> \o NullText \o <<"\n">>)

\* the watcher goroutine has ended
WatcherEnded == watchPc \in {"done", "exit"}

\* the steps of the watcher: it leaves its select once and never comes back
\* to it; it takes a signal from the channel only in the step that leaves the
\* select by the signal case, which is the step that calls cancelContext; the
\* step that leaves by ctx.Done() needs the context to be cancelled already
\* and changes nothing of the context, the channel or the signal routing;
\* a cancelled context stays cancelled
WatcherSteps ==
  /\ watchPc \notin {"none", "select"} => watchPc' \notin {"none", "select"}
  /\ Len(signalChan') < Len(signalChan) =>
       /\ watchPc = "select" /\ watchPc' = "reset"
       /\ Len(signalChan') = Len(signalChan) - 1
       /\ ctxDone'
  /\ (watchPc = "select" /\ watchPc' = "reset") => Len(signalChan') < Len(signalChan)
  /\ (watchPc = "select" /\ watchPc' = "exit") =>
       ctxDone /\ UNCHANGED <<ctxDone, signalChan, notify>>
  /\ (watchPc = "select" /\ signalChan = <<>> /\ watchPc' # "select" /\ exit' = "running") =>
       watchPc' = "exit"
  /\ ctxDone => ctxDone'

\* C19: once the watcher is installed, a stop signal delivered to its channel
\* leads to the context being cancelled, and a cancelled context leads to main
\* starting the shutdown (unless the process has exited meanwhile); a watcher
\* with a signal delivered or a cancelled context ends; it handles at most one
\* signal, calls cancelContext only for that signal, and ends without calling
\* it when the context was cancelled by its owner
C19_SignalWatcher ==
  /\ (signalChan # <<>>) ~> (ctxDone \/ ~Running)
  /\ ctxDone ~> (mainPc = "shutdown" \/ ~Running)
  /\ (watchPc = "select" /\ (signalChan # <<>> \/ ctxDone)) ~> (WatcherEnded \/ ~Running)
  /\ [][WatcherSteps]_vars

\* the watcher has ended after a signal, the context is cancelled and main has
\* started the shutdown while a handler is still running
C19_Witness ==
  /\ Running
  /\ watchPc = "done" /\ ctxDone /\ ~notify
  /\ mainPc = "shutdown"
  /\ InFlight # {}

====
